---- MODULE Spec2Model ----
(***************************************************************************)
(* A model of icd_matcher.py: the ICDSpecificCodes class (index build at   *)
(* construction, normalize_code, get_specific_codes) and the script's      *)
(* __main__ block.                                                         *)
(*                                                                         *)
(* A Python str is a sequence of one-character strings.  A Python value    *)
(* held in a result set is <<"str", s>> for the str s and <<"None">> for   *)
(* None.  Text written to a stream is a sequence of tokens, one entry of   *)
(* the stream per print() or prompt.                                       *)
(***************************************************************************)
EXTENDS Integers, Sequences, FiniteSets, TLC

VARIABLES
    mode,           \* "lib": the class used by a caller; "main": the script run directly
    collection,     \* the documents of the MongoDB collection, in scan order
    yearsArg,       \* the years argument given to __init__
    years,          \* self.years
    docs,           \* the list find() returned, _build_code_map's docs
    i,              \* position of the for loop of _build_code_map in docs
    code_map,       \* self.code_map (while building: the local code_map)
    pc,             \* "new", "build", "ready"; then for the script "asked", "looked", "done"
    raw_input_code, \* the line the script read from standard input
    raw_code,       \* the argument of the last get_specific_codes call
    result,         \* what the last get_specific_codes call returned
    ncalls,         \* number of method calls made by the caller so far
    returned,       \* the <<raw_code, result>> of every get_specific_codes call, in order
    stdout,         \* what was written to standard output, one entry per write
    stderr,         \* what was written to standard error
    raised,         \* TRUE once an exception has left the program's code
    npc,            \* position of the normalize_code exerciser
    nraw,           \* its input string
    nout,           \* normalize_code(nraw)
    nout2,          \* normalize_code(nout)
    nvar,           \* an input differing from nraw in case or whitespace only
    nvout,          \* normalize_code(nvar)
    nres,           \* get_specific_codes(nraw)
    nvres           \* get_specific_codes(nvar)

vars == <<mode, collection, yearsArg, years, docs, i, code_map, pc, raw_input_code,
          raw_code, result, ncalls, returned, stdout, stderr, raised,
          npc, nraw, nout, nout2, nvar, nvout, nres, nvres>>

libVars == <<mode, collection, yearsArg, years, docs, i, code_map, pc, raw_input_code,
             raw_code, result, ncalls, returned, stdout, stderr, raised>>

normVars == <<npc, nraw, nout, nout2, nvar, nvout, nres, nvres>>

----------------------------------------------------------------------------
(* Bounds of the model *)

\* longest input string the normalize_code exerciser enumerates exhaustively
MaxLen == 5
\* largest number of documents in the collection
MaxDocs == 3
\* largest number of method calls a caller of the class makes
MaxCalls == 2

----------------------------------------------------------------------------
(* Python str operations used by the program *)

Range(s) == {s[k] : k \in 1..Len(s)}

\* characters for which str.isspace() holds, which is what \s matches
WhiteSpace == {" ", "\t", "\n", "\r", "\f"}

Digits == {"0", "1", "2", "3", "4", "5", "6", "7", "8", "9"}

\* str.upper() of one character
UpperChar(c) ==
    CASE c = "e" -> "E"
      [] c = "x" -> "X"
      [] OTHER -> c

\* str.upper()
Upper(s) == [k \in 1..Len(s) |-> UpperChar(s[k])]

\* number of whitespace characters at the front of s: the run one match of \s+ takes
RECURSIVE WsRun(_)
WsRun(s) ==
    IF s # <<>> /\ Head(s) \in WhiteSpace THEN 1 + WsRun(Tail(s)) ELSE 0

\* re.sub(r"\s+", "", s): scan left to right, drop each maximal run of whitespace
RECURSIVE ReSubWs(_)
ReSubWs(s) ==
    IF s = <<>> THEN <<>>
    ELSE IF Head(s) \in WhiteSpace
         THEN ReSubWs(SubSeq(s, WsRun(s) + 1, Len(s)))
    ELSE <<Head(s)>> \o ReSubWs(Tail(s))

\* '.' in s
HasDot(s) == \E k \in 1..Len(s) : s[k] = "."

\* s[:3] and s[3:]
Slice3(s) == SubSeq(s, 1, 3)
From3(s) == SubSeq(s, 4, Len(s))

\* str.strip(): what int() does to its argument before reading the digits
RECURSIVE LStrip(_)
LStrip(s) == IF s # <<>> /\ Head(s) \in WhiteSpace THEN LStrip(Tail(s)) ELSE s

RECURSIVE RStrip(_)
RStrip(s) ==
    IF s # <<>> /\ s[Len(s)] \in WhiteSpace THEN RStrip(SubSeq(s, 1, Len(s) - 1)) ELSE s

Strip(s) == RStrip(LStrip(s))

----------------------------------------------------------------------------
(* normalize_code *)

\* a normalize_code that forgets the "'.' not in code_clean" test
normalize_code_nodottest(code) ==
    LET code_clean == ReSubWs(Upper(code))
    IN  IF Len(code_clean) >= 4
        THEN Slice3(code_clean) \o <<".">> \o From3(code_clean)
        ELSE code_clean

\* a normalize_code that inserts the dot from length 5 on only
normalize_code_len5(code) ==
    LET code_clean == ReSubWs(Upper(code))
    IN  IF ~HasDot(code_clean) /\ Len(code_clean) > 4
        THEN Slice3(code_clean) \o <<".">> \o From3(code_clean)
        ELSE code_clean

\* a normalize_code that strips the ends instead of removing all whitespace
normalize_code_strip(code) ==
    LET code_clean == Strip(Upper(code))
    IN  IF ~HasDot(code_clean) /\ Len(code_clean) >= 4
        THEN Slice3(code_clean) \o <<".">> \o From3(code_clean)
        ELSE code_clean

normalize_code(code) ==
    LET code_clean == ReSubWs(Upper(code))
    IN  IF ~HasDot(code_clean) /\ Len(code_clean) >= 4
        THEN Slice3(code_clean) \o <<".">> \o From3(code_clean)
        ELSE code_clean
----------------------------------------------------------------------------
(* The collection and its documents *)

\* a plain str element of specific_codes, a dict with a "code" key, a dict without
PlainCode(c) == [isdict |-> FALSE, hascode |-> FALSE, val |-> c]
ObjectCode(c) == [isdict |-> TRUE, hascode |-> TRUE, val |-> c]
ObjectNoCode == [isdict |-> TRUE, hascode |-> FALSE, val |-> ""]

\* a document: its "_id", whether it has a "specific_codes" field, and that field
Doc(id, has, sc) == [id |-> id, has_specific_codes |-> has, specific_codes |-> sc]

\* the documents a collection is drawn from; "_id" is unique in a collection
DocPool == {
    Doc(<<"2","0","2","2","_","E","0","0">>, TRUE, <<PlainCode("X0")>>),
    Doc(<<"2","0","2","3","_","E","0","8">>, TRUE, <<PlainCode("X1"), ObjectCode("X2")>>),
    Doc(<<"2","0","2","4","_","E","8","0">>, TRUE, <<ObjectCode("X3"), PlainCode("X1")>>),
    Doc(<<"2","0","2","4","_","e"," ","0","8">>, TRUE,
        <<ObjectNoCode, PlainCode("X4"), ObjectCode("X4")>>),
    Doc(<<"2","0","2","4","E","0","8">>, TRUE, <<PlainCode("X5")>>),
    Doc(<<"2","0","x","4","_","E","0","8">>, TRUE, <<PlainCode("X6")>>),
    Doc(<<" ","2","0","2","4","_","E","0","8","0","0">>, TRUE, <<>>),
    Doc(<<"2","0","2","4","_","E","8","8">>, FALSE, <<PlainCode("X9")>>) }

\* the collections of at most n documents, in every scan order
Collections(n) ==
    UNION { { c \in [1..k -> DocPool] : \A a, b \in 1..k : a # b => c[a].id # c[b].id }
            : k \in 0..n }

\* collection.find({"specific_codes": {"$exists": True}}, {"_id": 1, "specific_codes": 1})
Find(coll) == SelectSeq(coll, LAMBDA d : d.has_specific_codes)

----------------------------------------------------------------------------
(* _build_code_map *)

\* _id.split("_", 1)
Split(id) ==
    IF \E k \in 1..Len(id) : id[k] = "_"
    THEN LET k == CHOOSE k \in 1..Len(id) :
                     id[k] = "_" /\ \A j \in 1..(k - 1) : id[j] # "_"
         IN  <<SubSeq(id, 1, k - 1), SubSeq(id, k + 1, Len(id))>>
    ELSE <<id>>

\* the digits int() reads, after the surrounding whitespace and one sign
IntBody(s) ==
    LET t == Strip(s)
    IN  IF t # <<>> /\ Head(t) \in {"+", "-"} THEN Tail(t) ELSE t

\* int(s) does not raise ValueError
IntParses(s) ==
    LET body == IntBody(s)
    IN  body # <<>> /\ \A k \in 1..Len(body) : body[k] \in Digits

DigitVal(c) == CHOOSE n \in 0..9 : <<"0", "1", "2", "3", "4", "5", "6", "7", "8", "9">>[n + 1] = c

RECURSIVE DigitsValue(_)
DigitsValue(s) ==
    IF s = <<>> THEN 0
    ELSE 10 * DigitsValue(SubSeq(s, 1, Len(s) - 1)) + DigitVal(s[Len(s)])

\* int(s), where it parses
IntValue(s) ==
    LET t == Strip(s)
    IN  IF t # <<>> /\ Head(t) = "-" THEN 0 - DigitsValue(IntBody(s)) ELSE DigitsValue(IntBody(s))

\* the empty dict
EmptyMap == [k \in {} |-> {}]

\* code_map[norm_code] = doc
Put(cm, norm_code, doc) ==
    [k \in (DOMAIN cm) \cup {norm_code} |-> IF k = norm_code THEN doc ELSE cm[k]]

\* a loop body that leaves out the "year_int in self.years" test
LoopBody_anyyear(cm, doc, ys) ==
    LET parts == Split(doc.id)
    IN  IF Len(parts) = 2
        THEN IF ~IntParses(parts[1]) THEN cm
             ELSE Put(cm, normalize_code(parts[2]), doc)
        ELSE cm

\* a loop body that keeps the first document of a key (setdefault)
LoopBody_first(cm, doc, ys) ==
    LET parts == Split(doc.id)
    IN  IF Len(parts) = 2
        THEN IF ~IntParses(parts[1]) THEN cm
             ELSE IF IntValue(parts[1]) \in Range(ys)
                     /\ normalize_code(parts[2]) \notin DOMAIN cm
                  THEN Put(cm, normalize_code(parts[2]), doc)
                  ELSE cm
        ELSE cm

\* one pass of the for loop: the code_map after doc, from the code_map before it
LoopBody(cm, doc, ys) ==
    LET parts == Split(doc.id)
    IN  IF Len(parts) = 2
        THEN LET year == parts[1]
                 code == parts[2]
             IN  IF ~IntParses(year) THEN cm                 \* except ValueError: continue
                 ELSE IF IntValue(year) \in Range(ys)
                      THEN Put(cm, normalize_code(code), doc)
                      ELSE cm
        ELSE cm

\* the whole loop over ds, starting from cm
RECURSIVE BuildFrom(_, _, _)
BuildFrom(cm, ds, ys) ==
    IF ds = <<>> THEN cm ELSE BuildFrom(LoopBody(cm, Head(ds), ys), Tail(ds), ys)

\* the year the constructor falls back to
DefaultYear == 2024

NoYears == [kind |-> "none", scalar |-> 0, list |-> <<>>]
OneYear(y) == [kind |-> "scalar", scalar |-> y, list |-> <<>>]
YearList(l) == [kind |-> "list", scalar |-> 0, list |-> l]

\* self.years, from the years argument
SelfYears(arg) ==
    CASE arg.kind = "none" -> <<DefaultYear>>
      [] arg.kind = "list" -> arg.list
      [] OTHER -> <<arg.scalar>>
----------------------------------------------------------------------------
(* get_specific_codes *)

NoneValue == <<"None">>
StrValue(c) == <<"str", c>>

\* an element loop that takes plain strings only and drops the dicts
CollectCodes_plain(scs) ==
    {StrValue(scs[k].val) : k \in {j \in 1..Len(scs) : ~scs[j].isdict}}

\* the for loop over doc["specific_codes"]: results, grown one element at a time
RECURSIVE CollectFrom(_, _)
CollectFrom(results, scs) ==
    IF scs = <<>> THEN results
    ELSE LET sc == Head(scs)
         IN  IF sc.isdict
             THEN CollectFrom(results \cup
                      {IF sc.hascode THEN StrValue(sc.val) ELSE NoneValue}, Tail(scs))
             ELSE CollectFrom(results \cup {StrValue(sc.val)}, Tail(scs))

CollectCodes(scs) == CollectFrom({}, scs)

\* the text of the [ERROR] line
ErrorLine(raw, code) ==
    <<"[ERROR] ICD code '">> \o raw \o <<"' (normalized: '">> \o code
        \o <<"') not found in the database.">>

\* a get_specific_codes that reports whenever it has nothing to return
get_specific_codes_noisy(cm, raw) ==
    LET code == normalize_code(raw)
        ret == IF code \in DOMAIN cm THEN CollectCodes(cm[code].specific_codes) ELSE {}
    IN  [ret |-> ret,
         printed |-> IF ret = {} THEN <<ErrorLine(raw, code)>> ELSE <<>>]

\* get_specific_codes on the index cm: what it returns and what it prints.
\* self.code_map.get(code) is None for a missing key and otherwise a document,
\* which holds at least "_id" and so is never falsy.
get_specific_codes(cm, raw) ==
    LET code == normalize_code(raw)
    IN  IF code \notin DOMAIN cm
        THEN [ret |-> {}, printed |-> <<ErrorLine(raw, code)>>]
        ELSE [ret |-> CollectCodes(cm[code].specific_codes), printed |-> <<>>]

----------------------------------------------------------------------------
(* The __main__ block *)

\* the years the script asks for
MainYears == <<2023, 2024>>

\* the prompt of input()
Prompt == <<"Enter ICD code: ">>

\* list(suggestions): the elements of the set in some order
Orderings(S) ==
    { l \in [1..Cardinality(S) -> S] : \A a, b \in 1..Cardinality(S) : a # b => l[a] # l[b] }

\* json.dumps of one element
JsonAtom(v) == IF v = NoneValue THEN <<"null">> ELSE <<"\"", v[2], "\"">>

RECURSIVE JsonItems(_)
JsonItems(l) ==
    IF l = <<>> THEN <<>>
    ELSE <<"\n", "  ">> \o JsonAtom(Head(l))
            \o (IF Len(l) > 1 THEN <<",">> ELSE <<>>) \o JsonItems(Tail(l))

\* json.dumps(l, indent=2)
JsonDumps(l) ==
    IF l = <<>> THEN <<"[]">> ELSE <<"[">> \o JsonItems(l) \o <<"\n", "]">>

\* the inputs given to get_specific_codes and normalize_code by a caller
RawPool == { <<"e", " ", "0", "8">>, <<"E", "0", "8", "0", "0">>, <<"8", "8">> }
----------------------------------------------------------------------------
(* The program: construction, then calls by a caller or the script's steps *)

Init ==
    /\ mode \in {"lib", "main"}
    /\ collection \in Collections(MaxDocs)
    /\ yearsArg \in IF mode = "main" THEN {YearList(MainYears)}
                    ELSE {NoYears, OneYear(2023), YearList(<<2024, 2022>>)}
    /\ pc = "new"
    /\ years = <<>>
    /\ docs = <<>>
    /\ i = 0
    /\ code_map = EmptyMap
    /\ raw_input_code = <<>>
    /\ raw_code = <<>>
    /\ result = {}
    /\ ncalls = 0
    /\ returned = <<>>
    /\ stdout = <<>>
    /\ stderr = <<>>
    /\ raised = FALSE
    /\ npc = "idle"
    /\ nraw = <<>>
    /\ nout = <<>>
    /\ nout2 = <<>>
    /\ nvar = <<>>
    /\ nvout = <<>>
    /\ nres = {}
    /\ nvres = {}

\* __init__ up to the for loop of _build_code_map: self.years, the find(), code_map = {}
Construct ==
    /\ pc = "new"
    /\ years' = SelfYears(yearsArg)
    /\ docs' = Find(collection)
    /\ code_map' = EmptyMap
    /\ i' = 1
    /\ pc' = "build"
    /\ UNCHANGED <<mode, collection, yearsArg, raw_input_code, raw_code, result, ncalls,
                   returned, stdout, stderr, raised>>
    /\ UNCHANGED normVars

\* a loop that ends at the first document it cannot use
BuildStep_break ==
    /\ pc = "build"
    /\ i <= Len(docs)
    /\ LET parts == Split(docs[i].id)
       IN  IF Len(parts) # 2 \/ ~IntParses(parts[1])
           THEN /\ pc' = "ready"
                /\ UNCHANGED <<code_map, i>>
           ELSE /\ code_map' = LoopBody(code_map, docs[i], years)
                /\ i' = i + 1
                /\ pc' = pc
    /\ UNCHANGED <<mode, collection, yearsArg, years, docs, raw_input_code, raw_code, result,
                   ncalls, returned, stdout, stderr, raised>>
    /\ UNCHANGED normVars

\* one pass of the for loop of _build_code_map
BuildStep ==
    /\ pc = "build"
    /\ i <= Len(docs)
    /\ code_map' = LoopBody(code_map, docs[i], years)
    /\ i' = i + 1
    /\ UNCHANGED <<mode, collection, yearsArg, years, docs, pc, raw_input_code, raw_code,
                   result, ncalls, returned, stdout, stderr, raised>>
    /\ UNCHANGED normVars

\* return code_map; self.code_map = ...
BuildReturn ==
    /\ pc = "build"
    /\ i > Len(docs)
    /\ pc' = "ready"
    /\ UNCHANGED <<mode, collection, yearsArg, years, docs, i, code_map, raw_input_code,
                   raw_code, result, ncalls, returned, stdout, stderr, raised>>
    /\ UNCHANGED normVars

\* a call whose diagnostic goes to standard error
Call_stderr(raw) ==
    LET r == get_specific_codes(code_map, raw)
    IN  /\ raw_code' = raw
        /\ result' = r.ret
        /\ stderr' = stderr \o r.printed
        /\ returned' = Append(returned, <<raw, r.ret>>)
        /\ UNCHANGED <<mode, collection, yearsArg, years, docs, i, code_map, stdout, raised>>

\* a call that remembers a miss in the index
Call_caching(raw) ==
    LET r == get_specific_codes(code_map, raw)
    IN  /\ raw_code' = raw
        /\ result' = r.ret
        /\ stdout' = stdout \o r.printed
        /\ returned' = Append(returned, <<raw, r.ret>>)
        /\ code_map' = IF normalize_code(raw) \in DOMAIN code_map THEN code_map
                       ELSE Put(code_map, normalize_code(raw), Doc(<<>>, TRUE, <<>>))
        /\ UNCHANGED <<mode, collection, yearsArg, years, docs, i, stderr, raised>>

\* a call of get_specific_codes(raw): print() writes to standard output
Call(raw) ==
    LET r == get_specific_codes(code_map, raw)
    IN  /\ raw_code' = raw
        /\ result' = r.ret
        /\ stdout' = stdout \o r.printed
        /\ returned' = Append(returned, <<raw, r.ret>>)
        /\ UNCHANGED <<mode, collection, yearsArg, years, docs, i, code_map, stderr, raised>>

\* a caller of the class calls get_specific_codes
LibLookup ==
    /\ mode = "lib"
    /\ pc = "ready"
    /\ ncalls < MaxCalls
    /\ \E raw \in RawPool : Call(raw)
    /\ ncalls' = ncalls + 1
    /\ UNCHANGED <<pc, raw_input_code>>
    /\ UNCHANGED normVars

\* a caller of the class calls normalize_code
LibNormalize ==
    /\ mode = "lib"
    /\ pc = "ready"
    /\ ncalls < MaxCalls
    /\ \E raw \in RawPool :
          /\ nraw' = raw
          /\ nout' = normalize_code(raw)
    /\ ncalls' = ncalls + 1
    /\ UNCHANGED <<mode, collection, yearsArg, years, docs, i, code_map, pc, raw_input_code,
                   raw_code, result, returned, stdout, stderr, raised>>
    /\ UNCHANGED <<npc, nout2, nvar, nvout, nres, nvres>>

\* raw_input_code = input("Enter ICD code: ")
MainInput ==
    /\ mode = "main"
    /\ pc = "ready"
    /\ stdout' = Append(stdout, Prompt)
    /\ raw_input_code' \in RawPool
    /\ pc' = "asked"
    /\ UNCHANGED <<mode, collection, yearsArg, years, docs, i, code_map, raw_code, result,
                   ncalls, returned, stderr, raised>>
    /\ UNCHANGED normVars

\* suggestions = fetcher.get_specific_codes(raw_input_code)
MainLookup ==
    /\ mode = "main"
    /\ pc = "asked"
    /\ Call(raw_input_code)
    /\ pc' = "looked"
    /\ UNCHANGED <<ncalls, raw_input_code>>
    /\ UNCHANGED normVars

\* print(json.dumps(list(suggestions), indent=2))
MainPrint ==
    /\ mode = "main"
    /\ pc = "looked"
    /\ \E l \in Orderings(result) : stdout' = Append(stdout, JsonDumps(l))
    /\ pc' = "done"
    /\ UNCHANGED <<mode, collection, yearsArg, years, docs, i, code_map, raw_input_code,
                   raw_code, result, ncalls, returned, stderr, raised>>
    /\ UNCHANGED normVars

Next ==
    \/ Construct
    \/ BuildStep
    \/ BuildReturn
    \/ LibLookup
    \/ LibNormalize
    \/ MainInput
    \/ MainLookup
    \/ MainPrint

Spec == Init /\ [][Next]_vars

\* the construction alone, up to the moment self.code_map is assigned
NextBuild ==
    \/ Construct
    \/ BuildStep
    \/ BuildReturn

SpecBuild == Init /\ [][NextBuild]_vars
----------------------------------------------------------------------------
(* normalize_code applied to every short string, and to its variants *)

\* the characters of the enumerated inputs: a letter in both cases, digits,
\* a whitespace character and the dot
Alphabet == {"e", "E", "0", "8", " ", "."}

Strings(n) == UNION { [1..k -> Alphabet] : k \in 0..n }

\* the inputs the documentation of normalize_code and its callers name
ExampleInputs == {
    <<"E", "0", "8", "0", "0">>,
    <<"E", "0", "8", ".", "0", "0">>,
    <<"e", "0", "8", " ", "0", "0">>,
    <<" ", "e", "0", " ", " ", "8", "0", "0", " ">> }

NormInputs == Strings(MaxLen) \cup ExampleInputs

\* the other case of a letter
SwapCase(c) ==
    CASE c = "e" -> "E"
      [] c = "E" -> "e"
      [] OTHER -> c

\* x with the case of one letter changed, one whitespace character put in, or one
\* whitespace character taken out
OneEdit(x) ==
    { [x EXCEPT ![k] = SwapCase(x[k])] : k \in 1..Len(x) }
      \cup { SubSeq(x, 1, k) \o <<" ">> \o SubSeq(x, k + 1, Len(x)) : k \in 0..Len(x) }
      \cup { SubSeq(x, 1, k - 1) \o SubSeq(x, k + 1, Len(x)) :
                k \in {j \in 1..Len(x) : x[j] \in WhiteSpace} }

\* x in lower case without its whitespace: two inputs differ in letter case and
\* whitespace only exactly when this agrees on them
Fold(x) ==
    SelectSeq([k \in 1..Len(x) |-> IF x[k] = "E" THEN "e" ELSE x[k]],
              LAMBDA c : c \notin WhiteSpace)

Variants(x) == { y \in OneEdit(x) \cup ExampleInputs : y # x /\ Fold(y) = Fold(x) }

\* the collection behind the index the variants are looked up in
SampleCollection == <<
    Doc(<<"2","0","2","4","_","E","8","0">>, TRUE, <<PlainCode("X1"), ObjectCode("X2")>>),
    Doc(<<"2","0","2","4","_","e"," ","0","8">>, TRUE,
        <<ObjectNoCode, PlainCode("X4"), ObjectCode("X4")>>),
    Doc(<<" ","2","0","2","3","_","E","0","8",".","0","0">>, TRUE, <<PlainCode("X8")>>) >>

InitNorm ==
    /\ mode = "lib"
    /\ collection = SampleCollection
    /\ yearsArg = YearList(MainYears)
    /\ years = SelfYears(yearsArg)
    /\ docs = Find(collection)
    /\ i = Len(docs) + 1
    /\ code_map = BuildFrom(EmptyMap, docs, years)
    /\ pc = "ready"
    /\ raw_input_code = <<>>
    /\ raw_code = <<>>
    /\ result = {}
    /\ ncalls = 0
    /\ returned = <<>>
    /\ stdout = <<>>
    /\ stderr = <<>>
    /\ raised = FALSE
    /\ npc = "in"
    /\ nraw \in NormInputs
    /\ nout = <<>>
    /\ nout2 = <<>>
    /\ nvar = <<>>
    /\ nvout = <<>>
    /\ nres = {}
    /\ nvres = {}

\* normalize_code(nraw)
Normalize ==
    /\ npc = "in"
    /\ nout' = normalize_code(nraw)
    /\ npc' = "once"
    /\ UNCHANGED <<nraw, nout2, nvar, nvout, nres, nvres>>
    /\ UNCHANGED libVars

\* normalize_code of the string normalize_code returned
NormalizeAgain ==
    /\ npc = "once"
    /\ nout2' = normalize_code(nout)
    /\ npc' = "twice"
    /\ UNCHANGED <<nraw, nout, nvar, nvout, nres, nvres>>
    /\ UNCHANGED libVars

\* get_specific_codes(nraw)
LookupInput ==
    /\ npc = "twice"
    /\ nres' = get_specific_codes(code_map, nraw).ret
    /\ npc' = "looked"
    /\ UNCHANGED <<nraw, nout, nout2, nvar, nvout, nvres>>
    /\ UNCHANGED libVars

\* normalize_code and get_specific_codes of an input that differs from nraw in letter
\* case and whitespace only
TryVariant ==
    /\ npc = "looked"
    /\ \E v \in Variants(nraw) :
          /\ nvar' = v
          /\ nvout' = normalize_code(v)
          /\ nvres' = get_specific_codes(code_map, v).ret
    /\ npc' = "varied"
    /\ UNCHANGED <<nraw, nout, nout2, nres>>
    /\ UNCHANGED libVars

NextNorm ==
    \/ Normalize
    \/ NormalizeAgain
    \/ LookupInput
    \/ TryVariant

SpecNorm == InitNorm /\ [][NextNorm]_vars
----------------------------------------------------------------------------
(* Properties of normalize_code, under SpecNorm *)

\* C4: normalize_code is idempotent: normalizing the string normalize_code returned
\* gives that string again, for every input (with or without a dot, shorter than 4
\* characters, with whitespace).
C4_Idempotent ==
    npc \in {"twice", "looked", "varied"} => nout2 = nout

\* C4 witness: a lower-case input of no dot and length 4 got its dot, and the second
\* normalization left the result alone.
C4_Witness ==
    /\ npc = "twice"
    /\ nraw = <<"e", "0", "8", "0">>
    /\ nout = <<"E", "0", "8", ".", "0">>
    /\ nout2 = nout

\* the input's characters that are not whitespace, each in upper case
RefClean(x) ==
    LET kept == SelectSeq(x, LAMBDA ch : ch \notin WhiteSpace)
    IN  [k \in 1..Len(kept) |-> IF kept[k] = "e" THEN "E" ELSE kept[k]]

\* the reference function of the claim: c with a dot put after its 3rd character when c
\* has no dot and at least 4 characters, and c otherwise
RefNormalize(x) ==
    LET c == RefClean(x)
    IN  IF (\A k \in 1..Len(c) : c[k] # ".") /\ Len(c) >= 4
        THEN [k \in 1..(Len(c) + 1) |->
                 IF k <= 3 THEN c[k] ELSE IF k = 4 THEN "." ELSE c[k - 1]]
        ELSE c

\* C5: normalize_code equals the reference function (upper case, whitespace removed,
\* a dot after the 3rd character exactly when there is no dot and the cleaned length
\* is at least 4), and maps E0800 to E08.00, E08 to E08 and E08.00 to itself.
C5_Reference ==
    npc \in {"once", "twice", "looked", "varied"} =>
        /\ nout = RefNormalize(nraw)
        /\ (Len(nout) # Len(RefClean(nraw))) <=>
               ((\A k \in 1..Len(RefClean(nraw)) : RefClean(nraw)[k] # ".")
                   /\ Len(RefClean(nraw)) >= 4)
        /\ nraw = <<"E", "0", "8", "0", "0">> => nout = <<"E", "0", "8", ".", "0", "0">>
        /\ nraw = <<"E", "0", "8">> => nout = <<"E", "0", "8">>
        /\ nraw = <<"E", "0", "8", ".", "0", "0">> => nout = nraw

\* C5 witness: E0800 was normalized to E08.00.
C5_Witness ==
    /\ npc = "once"
    /\ nraw = <<"E", "0", "8", "0", "0">>
    /\ nout = <<"E", "0", "8", ".", "0", "0">>

\* C6: two inputs that differ in letter case and whitespace only normalize to the same
\* string, and get_specific_codes returns the same set for both.
C6_CaseWhitespaceInsensitive ==
    npc = "varied" => nvout = nout /\ nvres = nres

\* C6 witness: E0800 and "e08 00" both normalized to E08.00 and both found the
\* document indexed under it.
C6_Witness ==
    /\ npc = "varied"
    /\ nraw = <<"E", "0", "8", "0", "0">>
    /\ nvar = <<"e", "0", "8", " ", "0", "0">>
    /\ nvout = <<"E", "0", "8", ".", "0", "0">>
    /\ nvout = nout
    /\ nres = {StrValue("X8")}
    /\ nvres = nres
----------------------------------------------------------------------------
(* How the properties below read identifiers, documents and output *)

\* the positions of "_" in an identifier, and the first of them
SepPositions(id) == {k \in 1..Len(id) : id[k] = "_"}
FirstSep(id) == CHOOSE k \in SepPositions(id) : \A j \in SepPositions(id) : k <= j

\* "<year>_<code>": the text before the first "_" and the text after it
YearPart(id) == SubSeq(id, 1, FirstSep(id) - 1)
CodePart(id) == SubSeq(id, FirstSep(id) + 1, Len(id))

\* the identifier has the two parts and its year part is an integer
WellFormed(id) == SepPositions(id) # {} /\ IntParses(YearPart(id))

\* d was scanned, is well formed, and its year is one of Y
Selected(d, Y) ==
    d.has_specific_codes /\ WellFormed(d.id) /\ IntValue(YearPart(d.id)) \in Y

\* the construction is over
Built == pc \in {"ready", "asked", "looked", "done"}

\* for each document of coll in turn, <<key>> when it is selected for the years Y, key
\* being the normalized code part of its identifier, and <<>> when it is not
RECURSIVE KeysOf(_, _)
KeysOf(coll, Y) ==
    IF coll = <<>> THEN <<>>
    ELSE <<IF Selected(Head(coll), Y)
           THEN <<normalize_code(CodePart(Head(coll).id))>>
           ELSE <<>>>> \o KeysOf(Tail(coll), Y)

KeyAt == KeysOf(collection, Range(years))

Last(S) == CHOOSE j \in S : \A m \in S : m <= j

\* the value one element of specific_codes stands for
ValueOf(sc) ==
    IF sc.isdict /\ ~sc.hascode THEN <<"None">> ELSE <<"str", sc.val>>

\* the set a specific_codes sequence stands for
CodeSet(scs) == {ValueOf(scs[k]) : k \in 1..Len(scs)}

\* the call c of the log missed the index
Missed(c) == normalize_code(c[1]) \notin DOMAIN code_map

\* what the get_specific_codes calls wrote to standard output: all of it for a caller
\* of the class; for the script, what lies between the prompt and the JSON text
Diagnostics ==
    IF mode = "main"
    THEN SubSeq(stdout, 2, IF pc = "done" THEN Len(stdout) - 1 ELSE Len(stdout))
    ELSE stdout

\* the line holds the raw form and then the normalized form, each between fixed text
NamesBoth(line, raw, norm) ==
    /\ Len(line) = Len(raw) + Len(norm) + 3
    /\ SubSeq(line, 2, 1 + Len(raw)) = raw
    /\ SubSeq(line, 3 + Len(raw), 2 + Len(raw) + Len(norm)) = norm

\* text is an indented JSON array whose elements are exactly the values of S
IsJsonArrayOf(text, S) ==
    IF S = {} THEN text = <<"[]">>
    ELSE /\ Len(text) >= 2
         /\ text[1] = "["
         /\ text[Len(text)] = "]"
         /\ {StrValue(text[k + 1]) :
                k \in {j \in 1..(Len(text) - 2) : text[j] = "\"" /\ text[j + 2] = "\""}}
              \cup (IF \E k \in 1..Len(text) : text[k] = "null" THEN {NoneValue} ELSE {})
              = S
         /\ Cardinality({k \in 1..Len(text) : text[k] = ","}) = Cardinality(S) - 1
         /\ \A k \in 1..(Len(text) - 1) : text[k] = "\n" => text[k + 1] \in {"  ", "]"}

E00 == <<"E", "0", "0">>
E08 == <<"E", "0", "8">>
E80 == <<"E", "8", "0">>
E0800 == <<"E", "0", "8", "0", "0">>
E08dot00 == <<"E", "0", "8", ".", "0", "0">>
Id2022E00 == <<"2", "0", "2", "2", "_">> \o E00
Id2023E08 == <<"2", "0", "2", "3", "_">> \o E08
Id2024E80 == <<"2", "0", "2", "4", "_">> \o E80
Id2024e08 == <<"2", "0", "2", "4", "_", "e", " ", "0", "8">>
Id2024E08NoSep == <<"2", "0", "2", "4">> \o E08
Id20x4E08 == <<"2", "0", "x", "4", "_">> \o E08

----------------------------------------------------------------------------
(* Properties of the index build, under SpecBuild (C1, C7) and Spec (C10) *)

\* C1: a normalized code is a key of the index only if a scanned document has an
\* identifier "<year>_<code>" with int(year) in the configured years and
\* normalize_code(code) equal to it, and once the build is over every such document's
\* normalized code is a key; identifiers 2022_E00, 2023_E08, 2024_E80 with years
\* [2023, 2024] give exactly the keys E08 and E80.
C1_IndexOnlyConfiguredYears ==
    LET key == KeyAt
    IN  /\ \A k \in DOMAIN code_map : \E j \in 1..Len(collection) : key[j] = <<k>>
        /\ Built =>
              \A j \in 1..Len(collection) : key[j] # <<>> => key[j][1] \in DOMAIN code_map
        /\ ( /\ Built
             /\ Range(years) = {2023, 2024}
             /\ {collection[j].id : j \in 1..Len(collection)}
                    = {Id2022E00, Id2023E08, Id2024E80} )
              => DOMAIN code_map = {E08, E80}

\* C1 witness: the three documents of the example were scanned with years [2023, 2024],
\* and the index holds the 2023 and the 2024 code and not the 2022 one.
C1_Witness ==
    /\ pc = "ready"
    /\ years = <<2023, 2024>>
    /\ Len(collection) = 3
    /\ collection[1].id = Id2022E00
    /\ collection[2].id = Id2023E08
    /\ collection[3].id = Id2024E80
    /\ DOMAIN code_map = {E08, E80}

\* C7: a document whose identifier has no "_" or whose year part is no integer is
\* skipped silently: it adds no entry, nothing is written, nothing is raised, and every
\* later well-formed document of a configured year is still indexed.
C7_MalformedSkipped ==
    LET key == KeysOf(docs, Range(years))
    IN  /\ ~raised
        /\ (pc \in {"new", "build"} \/ (pc = "ready" /\ returned = <<>>))
              => stdout = <<>> /\ stderr = <<>>
        /\ \A k \in DOMAIN code_map : WellFormed(code_map[k].id)
        /\ Built =>
              \A j \in 1..Len(docs) :
                  ( /\ \E m \in 1..(j - 1) : ~WellFormed(docs[m].id)
                    /\ key[j] # <<>> )
                  => /\ key[j][1] \in DOMAIN code_map
                     /\ i = Len(docs) + 1

\* C7 witness: an identifier without "_" and one with a non-numeric year were scanned
\* before 2024_E80, the build is over, and 2024_E80 is indexed alone.
C7_Witness ==
    /\ pc = "ready"
    /\ Len(docs) = 3
    /\ docs[1].id = Id2024E08NoSep
    /\ docs[2].id = Id20x4E08
    /\ docs[3].id = Id2024E80
    /\ DOMAIN code_map = {E80}
    /\ stdout = <<>>
    /\ ~raised

\* C10: the index holds one entry per normalized code, the last scanned of the selected
\* documents that normalize to it, and a lookup of the code returns that document's
\* specific codes only, not those of the earlier documents.
C10_LastScannedWins ==
    LET key == KeyAt
        holders(k) == {j \in 1..Len(collection) : key[j] = <<k>>}
    IN  /\ Built => \A k \in DOMAIN code_map : code_map[k] = collection[Last(holders(k))]
        /\ \A n \in 1..Len(returned) :
              ~Missed(returned[n]) =>
                  returned[n][2] =
                      CodeSet(collection[Last(holders(normalize_code(returned[n][1])))]
                                  .specific_codes)

\* C10 witness: 2023_E08 was scanned before "2024_e 08", both in the configured years,
\* and a lookup of E08 returned the codes of the second and none of the first.
C10_Witness ==
    /\ Len(returned) >= 1
    /\ normalize_code(returned[1][1]) = E08
    /\ \E a, b \in 1..Len(collection) :
          /\ a < b
          /\ collection[a].id = Id2023E08
          /\ collection[b].id = Id2024e08
          /\ {j \in 1..Len(collection) : KeyAt[j] = <<E08>>} = {a, b}
          /\ returned[1][2] = CodeSet(collection[b].specific_codes)
          /\ returned[1][2] \cap CodeSet(collection[a].specific_codes) = {}
----------------------------------------------------------------------------
(* Properties of get_specific_codes and of the script, under Spec *)

\* C2: a call whose normalized code is a key of the index returns exactly the set its
\* document's specific_codes stands for, the "code" field of each dict element and each
\* plain string itself, nothing missing and nothing added; the document 2023_E08 with
\* ["X1", {"code": "X2"}] gives {"X1", "X2"} for a raw code that normalizes to E08.
C2_LookupExact ==
    /\ \A n \in 1..Len(returned) :
          ~Missed(returned[n]) =>
              returned[n][2] = CodeSet(code_map[normalize_code(returned[n][1])].specific_codes)
    /\ returned # <<>> =>
          /\ raw_code = returned[Len(returned)][1]
          /\ result = returned[Len(returned)][2]
    /\ \A n \in 1..Len(returned) :
          ( /\ normalize_code(returned[n][1]) = E08
            /\ E08 \in DOMAIN code_map
            /\ code_map[E08].id = Id2023E08 ) =>
              returned[n][2] = {<<"str", "X1">>, <<"str", "X2">>}

\* C2 witness: with 2023_E08 indexed, the call for "e 08" returned X1 and X2.
C2_Witness ==
    /\ Len(returned) = 1
    /\ raw_code = <<"e", " ", "0", "8">>
    /\ E08 \in DOMAIN code_map
    /\ code_map[E08].id = Id2023E08
    /\ result = {<<"str", "X1">>, <<"str", "X2">>}

\* C3: a call whose normalized code is no key of the index returns the empty set,
\* writes one diagnostic that names the raw and the normalized form, and raises
\* nothing; no other call writes a diagnostic, not even one that finds a document
\* with an empty specific_codes list.
C3_AbsentReported ==
    LET misses == SelectSeq(returned, Missed)
    IN  /\ ~raised
        /\ \A n \in 1..Len(returned) : Missed(returned[n]) => returned[n][2] = {}
        /\ Len(Diagnostics) = Len(misses)
        /\ \A m \in 1..Len(misses) :
              NamesBoth(Diagnostics[m], misses[m][1], normalize_code(misses[m][1]))

\* C3 witness: a caller looked up E0800, indexed with an empty list, and then the
\* absent 88; both calls returned the empty set and one diagnostic was written.
C3_Witness ==
    /\ mode = "lib"
    /\ Len(returned) = 2
    /\ returned[1] = <<E0800, {}>>
    /\ E08dot00 \in DOMAIN code_map
    /\ returned[2] = <<(<<"8", "8">>), {}>>
    /\ Missed(returned[2])
    /\ Len(stdout) = 1
    /\ ~raised

\* the script's call missed the index
MainMissed == normalize_code(raw_input_code) \notin DOMAIN code_map

\* C8 as stated: once the script is done, on a miss the diagnostic is on the error
\* stream and nothing was written to standard output after the read; on a hit only the
\* JSON array was written to standard output.
C8_AsStated ==
    (mode = "main" /\ pc = "done") =>
        /\ MainMissed =>
              /\ Len(stderr) = 1
              /\ NamesBoth(stderr[1], raw_input_code, normalize_code(raw_input_code))
              /\ Len(stdout) = 1
        /\ ~MainMissed =>
              /\ stderr = <<>>
              /\ Len(stdout) = 2
              /\ IsJsonArrayOf(stdout[2], result)

\* C8 amended: once the script is done nothing is on the error stream; after the
\* prompt, standard output holds on a miss the diagnostic and then the JSON text of the
\* empty array, and on a hit the indented JSON array of the matched codes alone.
C8_AllOnStdout ==
    (mode = "main" /\ pc = "done") =>
        /\ stderr = <<>>
        /\ Len(stdout) >= 1
        /\ stdout[1] = Prompt
        /\ MainMissed =>
              /\ Len(stdout) = 3
              /\ NamesBoth(stdout[2], raw_input_code, normalize_code(raw_input_code))
              /\ stdout[3] = <<"[]">>
        /\ ~MainMissed =>
              /\ Len(stdout) = 2
              /\ IsJsonArrayOf(stdout[2], result)

\* C8 witness: the script read 88, missed, and wrote the diagnostic and "[]" to
\* standard output.
C8_Witness ==
    /\ mode = "main"
    /\ pc = "done"
    /\ raw_input_code = <<"8", "8">>
    /\ MainMissed
    /\ Len(stdout) = 3
    /\ stdout[3] = <<"[]">>
    /\ stderr = <<>>

\* C9: once built, the index, the documents and the configured years never change,
\* whatever get_specific_codes and normalize_code calls follow, and two calls with the
\* same raw code return the same set.
C9_IndexImmutable ==
    /\ [][Built => /\ code_map' = code_map
                   /\ years' = years
                   /\ docs' = docs
                   /\ collection' = collection]_vars
    /\ [](\A a, b \in 1..Len(returned) :
              returned[a][1] = returned[b][1] => returned[a][2] = returned[b][2])

\* C9 witness: a caller looked up the absent 88 twice, got the empty set both times,
\* and the index still has no entry for it.
C9_Witness ==
    /\ mode = "lib"
    /\ Len(returned) = 2
    /\ returned[1][1] = <<"8", "8">>
    /\ returned[2] = returned[1]
    /\ Missed(returned[2])
    /\ DOMAIN code_map # {}
====
